---- MODULE Spec2Model ----
(***************************************************************************)
(* Model of simplest_ofdpa_switch13.py: the Ryu application that, on every *)
(* EventOFPSwitchFeatures, wipes a two-port OF-DPA switch and installs the *)
(* table-miss entry, the VLAN_TABLE entries, the L2 interface groups and   *)
(* the two ACL bridging entries.                                           *)
(*                                                                         *)
(* The controller side is the handler switch_features_handler, one action  *)
(* per call it makes.  The switch side is a FIFO connection per datapath   *)
(* and the flow and group tables the OpenFlow messages act on.             *)
(***************************************************************************)
EXTENDS Integers, Sequences, FiniteSets, TLC

VARIABLES
    pc,        \* pc[d]: position of switch_features_handler for datapath d
    port_i,    \* port_i[d]: index into `ports` of the running for-loop
    exc,       \* exc[d]: the exception in flight inside the try block
    result,    \* result[d]: how the handler ended for its invoker
    log,       \* log[d]: what the cycle wrote (logging.info, traceback)
    sent,      \* sent[d]: the mutations the cycle has issued, in order
    chan,      \* chan[d]: messages in flight to the switch, FIFO
    acks,      \* acks[d]: barrier replies delivered and not yet consumed, less
               \* those still to come for calls that no longer wait for them
    swFlows,   \* swFlows[d]: the flow entries the switch holds
    swGroups,  \* swGroups[d]: the group entries the switch holds
    cycle,     \* cycle[d]: number of EventOFPSwitchFeatures handled
    seen,      \* seen[d]: how the previous cycle ended and what it left
    call,      \* the last call of a group id builder: function and arguments
    ret        \* what that call returned or raised

vars == <<pc, port_i, exc, result, log, sent, chan, acks, swFlows, swGroups, cycle, seen,
          call, ret>>

----------------------------------------------------------------------------
(* Bounds of the model *)

MaxCycles == 2
MaxStale == 2

DPIDS == {1, 2}

----------------------------------------------------------------------------
(* Constants of the program and of the OpenFlow 1.3 protocol it names *)

ACL_TABLE == 60
VLAN_TABLE == 10
TERMINATION_MAC == 20
n_vlan == 1
OFPVID_PRESENT == 4096
ports == <<1, 2>>

MAX_PORT == 65535
TYPE_OFFSET == 28
MAX_TYPE == 12
MAX_INDEX == 268435455

OFPFC_ADD == 0
OFPFC_DELETE == 3
OFPGC_DELETE == 2
OFPGT_INDIRECT == 2
OFPTT_ALL == 255

----------------------------------------------------------------------------
(* Integer arithmetic of Python: unbounded, bitwise operators in two's      *)
(* complement.  A value that may pass 31 bits is held as two limbs,        *)
(* hi * 2^16 + lo with 0 <= lo < 2^16 and hi any integer.                  *)

RECURSIVE Pow2(_)
Pow2(n) == IF n = 0 THEN 1 ELSE 2 * Pow2(n - 1)

RECURSIVE BitOr(_, _)
BitOr(a, b) ==
    IF a = 0 THEN b
    ELSE IF b = 0 THEN a
    ELSE IF a = -1 \/ b = -1 THEN -1
    ELSE (IF a % 2 = 1 \/ b % 2 = 1 THEN 1 ELSE 0)
         + 2 * BitOr(a \div 2, b \div 2)

Limb == Pow2(16)

Wide(n) == [hi |-> n \div Limb, lo |-> n % Limb]

WideOr(a, b) == [hi |-> BitOr(a.hi, b.hi), lo |-> BitOr(a.lo, b.lo)]

ShiftLeft(x, n) ==
    IF n >= 16 THEN [hi |-> x * Pow2(n - 16), lo |-> 0] ELSE Wide(x * Pow2(n))

WideLeq(a, b) == a.hi < b.hi \/ (a.hi = b.hi /\ a.lo <= b.lo)

----------------------------------------------------------------------------
(* Group id builders.  A call returns Ok(v), v in limbs, or raises         *)
(* AssertionError.                                                         *)

Ok(v) == [exc |-> "none", val |-> v]
AssertionError == [exc |-> "AssertionError", val |-> Wide(0)]

(* the type shifted one bit short, into the top bit of the VLAN field *)
ofdpa_group_id_Shift27(index, type) ==
    IF ~(type <= MAX_TYPE) THEN AssertionError
    ELSE IF ~WideLeq(index, Wide(MAX_INDEX)) THEN AssertionError
    ELSE Ok(WideOr(index, ShiftLeft(type, 27)))

(* the index bound left unchecked *)
ofdpa_group_id_NoIndexCheck(index, type) ==
    IF ~(type <= MAX_TYPE) THEN AssertionError
    ELSE Ok(WideOr(index, ShiftLeft(type, TYPE_OFFSET)))

ofdpa_group_id(index, type) ==
    IF ~(type <= MAX_TYPE) THEN AssertionError
    ELSE IF ~WideLeq(index, Wide(MAX_INDEX)) THEN AssertionError
    ELSE Ok(WideOr(index, ShiftLeft(type, TYPE_OFFSET)))

(* the VLAN id shifted into the wrong bit position *)
l2_if_group_Shift12(port, vlan_id) ==
    IF ~(port <= MAX_PORT) THEN AssertionError
    ELSE ofdpa_group_id(WideOr(Wide(port), ShiftLeft(vlan_id, 12)), 0)

port_vlan(port, vlan_id) == WideOr(Wide(port), ShiftLeft(vlan_id, 16))

l2_if_group(port, vlan_id) ==
    IF ~(port <= MAX_PORT) THEN AssertionError
    ELSE ofdpa_group_id(port_vlan(port, vlan_id), 0)

(* the unfiltered interface group built with the neighbouring type *)
l2_unfiltered_if_group_Type12(port) ==
    IF ~(port <= MAX_PORT) THEN AssertionError
    ELSE ofdpa_group_id(Wide(port), 12)

l2_unfiltered_if_group(port) ==
    IF ~(port <= MAX_PORT) THEN AssertionError
    ELSE ofdpa_group_id(Wide(port), 11)

n_vlan_match == BitOr(n_vlan, OFPVID_PRESENT)

(* 0xfffffffc and 0xffffffff *)
OFPG_ALL == [hi |-> 65535, lo |-> 65532]
OFPG_ANY == [hi |-> 65535, lo |-> 65535]
OFPP_ANY == [hi |-> 65535, lo |-> 65535]

----------------------------------------------------------------------------
(* OpenFlow messages as the parser builds them.  A match is the set of its *)
(* <<field, value>> pairs, an optional argument is <<>> (None) or <<v>>.   *)

OFPMatch(fields) == fields

OFPActionSetField(field, value) == [type |-> "SET_FIELD", field |-> field, arg |-> value]
OFPActionPopVlan == [type |-> "POP_VLAN", field |-> "", arg |-> 0]
OFPActionOutput(port) == [type |-> "OUTPUT", field |-> "", arg |-> port]
OFPActionGroup(group_id) == [type |-> "GROUP", field |-> "", arg |-> group_id]

OFPBucket(actions) == [actions |-> actions]

OFPInstructionActions(actions) == [type |-> "OFPIT_APPLY_ACTIONS", actions |-> actions]
OFPInstructionGotoTable(table_id) == [type |-> "OFPIT_GOTO_TABLE", table_id |-> table_id]

OFPBarrierRequest(datapath) == [kind |-> "OFPBarrierRequest", datapath |-> datapath]

add_flow_table_id == ACL_TABLE

add_flow(datapath, priority, match, actions, buffer_id, table_id, goto) ==
    LET inst == <<OFPInstructionActions(actions)>>
                \o (IF goto # <<>> THEN <<OFPInstructionGotoTable(goto[1])>> ELSE <<>>)
    IN  IF buffer_id # <<>> /\ buffer_id[1] # 0
        THEN [kind |-> "OFPFlowMod", datapath |-> datapath, command |-> OFPFC_ADD,
              buffer_id |-> buffer_id[1], priority |-> priority, match |-> match,
              table_id |-> table_id, instructions |-> inst]
        ELSE [kind |-> "OFPFlowMod", datapath |-> datapath, command |-> OFPFC_ADD,
              priority |-> priority, match |-> match, instructions |-> inst,
              table_id |-> table_id]

add_group(datapath, buckets, group_id, group_type) ==
    [kind |-> "OFPGroupMod", datapath |-> datapath, command |-> OFPFC_ADD,
     type |-> group_type, group_id |-> group_id, buckets |-> buckets]

(* the delete addressed to OFPG_ANY, the id of no group, in place of OFPG_ALL *)
del_groups_Any(datapath) ==
    [kind |-> "OFPGroupMod", datapath |-> datapath, command |-> OFPGC_DELETE,
     type |-> 0, group_id |-> OFPG_ANY, buckets |-> <<>>]

del_groups(datapath) ==
    [kind |-> "OFPGroupMod", datapath |-> datapath, command |-> OFPGC_DELETE,
     type |-> 0, group_id |-> OFPG_ALL, buckets |-> <<>>]

(* table_id left out of the delete: the parser's default, table 0 *)
del_flows_Table0(datapath) ==
    [kind |-> "OFPFlowMod", datapath |-> datapath, table_id |-> 0,
     command |-> OFPFC_DELETE, out_port |-> OFPP_ANY, out_group |-> OFPG_ANY,
     match |-> OFPMatch({})]

del_flows(datapath) ==
    [kind |-> "OFPFlowMod", datapath |-> datapath, table_id |-> OFPTT_ALL,
     command |-> OFPFC_DELETE, out_port |-> OFPP_ANY, out_group |-> OFPG_ANY,
     match |-> OFPMatch({})]

(* The messages of the handler, in the order of its statements *)

(* the table-miss entry written with table_id=0 *)
TableMissMsg_Table0(d) ==
    add_flow(d, 0, OFPMatch({}), <<>>, <<>>, 0, <<>>)

TableMissMsg(d) ==
    add_flow(d, 0, OFPMatch({}), <<>>, <<>>, add_flow_table_id, <<>>)

VlanTaggedMsg(d, port) ==
    add_flow(d, 3, OFPMatch({<<"in_port", port>>, <<"vlan_vid", n_vlan_match>>}),
             <<>>, <<>>, VLAN_TABLE, <<TERMINATION_MAC>>)

(* the untagged entry pushing an 802.1Q header before it sets the VLAN id *)
VlanUntaggedMsg_Push(d, port) ==
    add_flow(d, 3, OFPMatch({<<"in_port", port>>, <<"vlan_vid", 0>>}),
             <<[type |-> "PUSH_VLAN", field |-> "", arg |-> 33024],
               OFPActionSetField("vlan_vid", n_vlan)>>, <<>>, VLAN_TABLE,
             <<TERMINATION_MAC>>)

(* the untagged entry matching on the port alone *)
VlanUntaggedMsg_NoVlan(d, port) ==
    add_flow(d, 3, OFPMatch({<<"in_port", port>>}),
             <<OFPActionSetField("vlan_vid", n_vlan)>>, <<>>, VLAN_TABLE,
             <<TERMINATION_MAC>>)

VlanUntaggedMsg(d, port) ==
    add_flow(d, 3, OFPMatch({<<"in_port", port>>, <<"vlan_vid", 0>>}),
             <<OFPActionSetField("vlan_vid", n_vlan)>>, <<>>, VLAN_TABLE,
             <<TERMINATION_MAC>>)

GroupBuckets(port) == <<OFPBucket(<<OFPActionPopVlan, OFPActionOutput(port)>>)>>

GroupMsg(d, port, group_id) ==
    add_group(d, GroupBuckets(port), group_id, OFPGT_INDIRECT)

(* the entry for in_port 1 sent to the group of port 1 *)
Bridge1Group_SamePort == l2_if_group(1, n_vlan)

(* the entry for in_port 2 sent to the group of port 2 *)
Bridge2Group_SamePort == l2_if_group(2, n_vlan)

Bridge1Group == l2_if_group(2, n_vlan)
Bridge2Group == l2_if_group(1, n_vlan)

BridgeMsg(d, in_port, group_id) ==
    add_flow(d, 1000, OFPMatch({<<"in_port", in_port>>, <<"vlan_vid", n_vlan_match>>}),
             <<OFPActionGroup(group_id)>>, <<>>, add_flow_table_id, <<>>)

----------------------------------------------------------------------------
(* The switch: stale contents it may hold when it connects, and the effect *)
(* of each message on its flow table and its group table                   *)

FlowEntry(msg) ==
    [table_id |-> msg.table_id, priority |-> msg.priority, match |-> msg.match,
     instructions |-> msg.instructions]

GroupEntry(msg) ==
    [group_id |-> msg.group_id, type |-> msg.type, buckets |-> msg.buckets]

(* Stale entry k: a flow of ACL_TABLE from port k+1 to its own group, a    *)
(* group with the id of port k+1 and another bucket.  k = 1 collides with  *)
(* an entry the handler installs, larger k do not.                         *)
StaleFlow(k) ==
    FlowEntry(add_flow(0, 1000,
                       OFPMatch({<<"in_port", k + 1>>, <<"vlan_vid", n_vlan_match>>}),
                       <<OFPActionGroup(l2_if_group(k + 1, n_vlan).val)>>, <<>>,
                       ACL_TABLE, <<>>))

StaleGroup(k) ==
    GroupEntry(add_group(0, <<OFPBucket(<<OFPActionOutput(k)>>)>>,
                         l2_if_group(k + 1, n_vlan).val, OFPGT_INDIRECT))

StaleFlows == {StaleFlow(k) : k \in 1..MaxStale}
StaleGroups == {StaleGroup(k) : k \in 1..MaxStale}

ApplyFlowMod(flows, msg) ==
    IF msg.command = OFPFC_DELETE
    THEN {f \in flows : ~(msg.table_id = OFPTT_ALL \/ f.table_id = msg.table_id)
                         \/ ~(msg.match \subseteq f.match)}
    ELSE {f \in flows : ~(/\ f.table_id = msg.table_id
                          /\ f.priority = msg.priority
                          /\ f.match = msg.match)}
         \cup {FlowEntry(msg)}

ApplyGroupMod(groups, msg) ==
    IF msg.command = OFPGC_DELETE
    THEN {g \in groups : ~(msg.group_id = OFPG_ALL \/ g.group_id = msg.group_id)}
    ELSE IF \E g \in groups : g.group_id = msg.group_id
         THEN groups
         ELSE groups \cup {GroupEntry(msg)}

----------------------------------------------------------------------------
(* Sending.  datapath.send_msg queues the message on the connection and    *)
(* returns; api.send_msg queues the message followed by a barrier request  *)
(* and returns when the barrier reply has come back.                       *)

(* the datapath kept in an attribute of the app that every connecting     *)
(* switch overwrites, and the message sent on the connection found there   *)
datapath_send_msg_Shared(d, msg, nextpc) ==
    LET t == CHOOSE e \in DPIDS : cycle[e] > 0 /\ \A f \in DPIDS : cycle[f] > 0 => f <= e
    IN  /\ chan' = [chan EXCEPT ![t] = Append(@, msg)]
        /\ sent' = [sent EXCEPT ![d] = Append(@, msg)]
        /\ pc' = [pc EXCEPT ![d] = nextpc]

datapath_send_msg(d, msg, nextpc) ==
    /\ chan' = [chan EXCEPT ![d] = Append(@, msg)]
    /\ sent' = [sent EXCEPT ![d] = Append(@, msg)]
    /\ pc' = [pc EXCEPT ![d] = nextpc]

(* api.send_msg written as datapath.send_msg: no barrier, no wait *)
api_send_msg_nowait(d, msg, waitpc, nextpc) ==
    /\ chan' = [chan EXCEPT ![d] = Append(@, msg)]
    /\ sent' = [sent EXCEPT ![d] = Append(@, msg)]
    /\ pc' = [pc EXCEPT ![d] = nextpc]

(* api.send_msg waiting for a reply to a barrier request it never sent *)
api_send_msg_NoBarrier(d, msg, waitpc, nextpc) ==
    /\ chan' = [chan EXCEPT ![d] = Append(@, msg)]
    /\ sent' = [sent EXCEPT ![d] = Append(@, msg)]
    /\ pc' = [pc EXCEPT ![d] = waitpc]

api_send_msg(d, msg, waitpc, nextpc) ==
    /\ chan' = [chan EXCEPT ![d] = @ \o <<msg, OFPBarrierRequest(d)>>]
    /\ sent' = [sent EXCEPT ![d] = Append(@, msg)]
    /\ pc' = [pc EXCEPT ![d] = waitpc]

api_send_msg_reply(d, nextpc) ==
    /\ acks[d] > 0
    /\ acks' = [acks EXCEPT ![d] = @ - 1]
    /\ pc' = [pc EXCEPT ![d] = nextpc]

(* api.send_msg raises after it has taken the message: the message stays   *)
(* sent, control leaves for the except clause, and the reply to the call's *)
(* barrier request, come or still to come, is answered to nobody           *)
api_send_msg_raise(d, what) ==
    /\ acks' = [acks EXCEPT ![d] = @ - 1]
    /\ exc' = [exc EXCEPT ![d] = what]
    /\ pc' = [pc EXCEPT ![d] = "except"]

(* A call that fails raises inside the try block: control leaves the       *)
(* statement for the except clause and nothing is sent.                    *)
Raise(d, what) ==
    /\ exc' = [exc EXCEPT ![d] = what]
    /\ pc' = [pc EXCEPT ![d] = "except"]
    /\ UNCHANGED <<port_i, result, log, sent, chan, acks, swFlows, swGroups, cycle, seen, call, ret>>

----------------------------------------------------------------------------
(* switch_features_handler, statement by statement *)

(* The statements of the try block in program order, by the label of the   *)
(* first call of each; After(p) is where control goes when p is finished.  *)
(* the bridging entries written before the groups they name *)
PhaseOrder_BridgeFirst ==
    <<"del_flows", "del_groups", "table_miss", "vlan_tagged", "bridge_1", "group">>

(* the groups written right after the table-miss entry *)
PhaseOrder_GroupsFirst ==
    <<"del_flows", "del_groups", "table_miss", "group", "vlan_tagged", "bridge_1">>

(* the groups deleted before the flows *)
PhaseOrder_DelGroupsFirst ==
    <<"del_groups", "del_flows", "table_miss", "vlan_tagged", "group", "bridge_1">>

PhaseOrder == <<"del_flows", "del_groups", "table_miss", "vlan_tagged", "group", "bridge_1">>

After(p) ==
    LET i == CHOOSE k \in 1..Len(PhaseOrder) : PhaseOrder[k] = p
    IN  IF i < Len(PhaseOrder) THEN PhaseOrder[i + 1] ELSE "return"

Failed(d) == exc[d] # "none" \/ \E i \in 1..Len(log[d]) : log[d][i].level = "traceback"

(* What an observer of the switch sees of a cycle that has ended *)
Outcome(d) ==
    IF pc[d] = "idle" THEN "none"
    ELSE IF Failed(d) THEN "failed"
    ELSE IF chan[d] # <<>> THEN "inflight"
    ELSE "ok"

(* lines 52-60: the event arrives, the handler logs the datapath id *)
Connect(d) ==
    /\ pc[d] \in {"idle", "done"}
    /\ cycle[d] < MaxCycles
    /\ cycle' = [cycle EXCEPT ![d] = @ + 1]
    /\ pc' = [pc EXCEPT ![d] = PhaseOrder[1]]
    /\ seen' = [seen EXCEPT ![d] = [outcome |-> Outcome(d), flows |-> swFlows[d],
                                    groups |-> swGroups[d]]]
    /\ log' = [log EXCEPT ![d] = <<[level |-> "info", what |-> "Configuring new datapath", arg |-> d]>>]
    /\ sent' = [sent EXCEPT ![d] = <<>>]
    /\ result' = [result EXCEPT ![d] = "none"]
    /\ exc' = [exc EXCEPT ![d] = "none"]
    /\ port_i' = [port_i EXCEPT ![d] = 1]
    /\ UNCHANGED <<chan, acks, swFlows, swGroups, call, ret>>

(* line 66 *)
DelFlows(d) ==
    /\ pc[d] = "del_flows"
    /\ \E fails \in BOOLEAN :
         IF fails THEN Raise(d, "del_flows")
         ELSE /\ api_send_msg(d, del_flows(d), "del_flows_wait", After("del_flows"))
              /\ UNCHANGED <<port_i, exc, result, log, acks, swFlows, swGroups, cycle, seen, call, ret>>

DelFlowsReply(d) ==
    /\ pc[d] = "del_flows_wait"
    /\ \E fails \in BOOLEAN :
         IF fails
         THEN /\ api_send_msg_raise(d, "del_flows")
              /\ UNCHANGED <<port_i, result, log, sent, chan, swFlows, swGroups, cycle, seen, call, ret>>
         ELSE /\ api_send_msg_reply(d, After("del_flows"))
              /\ UNCHANGED <<port_i, exc, result, log, sent, chan, swFlows, swGroups, cycle, seen, call, ret>>

(* line 67 *)
DelGroups(d) ==
    /\ pc[d] = "del_groups"
    /\ \E fails \in BOOLEAN :
         IF fails THEN Raise(d, "del_groups")
         ELSE /\ api_send_msg(d, del_groups(d), "del_groups_wait", After("del_groups"))
              /\ UNCHANGED <<port_i, exc, result, log, acks, swFlows, swGroups, cycle, seen, call, ret>>

DelGroupsReply(d) ==
    /\ pc[d] = "del_groups_wait"
    /\ \E fails \in BOOLEAN :
         IF fails
         THEN /\ api_send_msg_raise(d, "del_groups")
              /\ UNCHANGED <<port_i, result, log, sent, chan, swFlows, swGroups, cycle, seen, call, ret>>
         ELSE /\ api_send_msg_reply(d, After("del_groups"))
              /\ UNCHANGED <<port_i, exc, result, log, sent, chan, swFlows, swGroups, cycle, seen, call, ret>>

(* lines 69-72 *)
TableMiss(d) ==
    /\ pc[d] = "table_miss"
    /\ \E fails \in BOOLEAN :
         IF fails THEN Raise(d, "table_miss")
         ELSE /\ datapath_send_msg(d, TableMissMsg(d), After("table_miss"))
              /\ port_i' = [port_i EXCEPT ![d] = 1]
              /\ UNCHANGED <<exc, result, log, acks, swFlows, swGroups, cycle, seen, call, ret>>

(* lines 78-85: first add_flow of the loop body *)
VlanTagged(d) ==
    /\ pc[d] = "vlan_tagged"
    /\ \E fails \in BOOLEAN :
         IF fails THEN Raise(d, "vlan_tagged")
         ELSE /\ datapath_send_msg(d, VlanTaggedMsg(d, ports[port_i[d]]), "vlan_untagged")
              /\ UNCHANGED <<port_i, exc, result, log, acks, swFlows, swGroups, cycle, seen, call, ret>>

(* lines 86-94: second add_flow of the loop body, then the next port *)
VlanUntagged(d) ==
    /\ pc[d] = "vlan_untagged"
    /\ \E fails \in BOOLEAN :
         IF fails THEN Raise(d, "vlan_untagged")
         ELSE /\ IF port_i[d] < Len(ports)
                 THEN /\ datapath_send_msg(d, VlanUntaggedMsg(d, ports[port_i[d]]), "vlan_tagged")
                      /\ port_i' = [port_i EXCEPT ![d] = @ + 1]
                 ELSE /\ datapath_send_msg(d, VlanUntaggedMsg(d, ports[port_i[d]]), After("vlan_tagged"))
                      /\ port_i' = [port_i EXCEPT ![d] = 1]
              /\ UNCHANGED <<exc, result, log, acks, swFlows, swGroups, cycle, seen, call, ret>>

(* lines 96-102 *)
AddGroup(d) ==
    /\ pc[d] = "group"
    /\ LET port == ports[port_i[d]]
           group_id == l2_if_group(port, n_vlan)
       IN  IF group_id.exc # "none" THEN Raise(d, "group")
           ELSE \E fails \in BOOLEAN :
                  IF fails THEN Raise(d, "group")
                  ELSE /\ IF port_i[d] < Len(ports)
                          THEN /\ datapath_send_msg(d, GroupMsg(d, port, group_id.val), "group")
                               /\ port_i' = [port_i EXCEPT ![d] = @ + 1]
                          ELSE /\ datapath_send_msg(d, GroupMsg(d, port, group_id.val), After("group"))
                               /\ port_i' = [port_i EXCEPT ![d] = 1]
                       /\ UNCHANGED <<exc, result, log, acks, swFlows, swGroups, cycle, seen, call, ret>>

(* lines 104-107 *)
Bridge1(d) ==
    /\ pc[d] = "bridge_1"
    /\ IF Bridge1Group.exc # "none" THEN Raise(d, "bridge_1")
       ELSE \E fails \in BOOLEAN :
              IF fails THEN Raise(d, "bridge_1")
              ELSE /\ datapath_send_msg(d, BridgeMsg(d, 1, Bridge1Group.val), "bridge_2")
                   /\ UNCHANGED <<port_i, exc, result, log, acks, swFlows, swGroups, cycle, seen, call, ret>>

(* lines 109-112 *)
Bridge2(d) ==
    /\ pc[d] = "bridge_2"
    /\ IF Bridge2Group.exc # "none" THEN Raise(d, "bridge_2")
       ELSE \E fails \in BOOLEAN :
              IF fails THEN Raise(d, "bridge_2")
              ELSE /\ datapath_send_msg(d, BridgeMsg(d, 2, Bridge2Group.val), After("bridge_1"))
                   /\ UNCHANGED <<port_i, exc, result, log, acks, swFlows, swGroups, cycle, seen, call, ret>>

(* the try block ran to its end: the handler returns None *)
Return(d) ==
    /\ pc[d] = "return"
    /\ result' = [result EXCEPT ![d] = "returned"]
    /\ pc' = [pc EXCEPT ![d] = "done"]
    /\ UNCHANGED <<port_i, exc, log, sent, chan, acks, swFlows, swGroups, cycle, seen, call, ret>>

(* the except clause around one call only: the statements after it still run *)
Except_Continue(d) ==
    /\ pc[d] = "except"
    /\ log' = [log EXCEPT ![d] = Append(@, [level |-> "traceback", what |-> exc[d], arg |-> 0])]
    /\ exc' = [exc EXCEPT ![d] = "none"]
    /\ pc' = [pc EXCEPT ![d] = "bridge_1"]
    /\ UNCHANGED <<port_i, result, sent, chan, acks, swFlows, swGroups, cycle, seen, call, ret>>

(* lines 113-114: the bare except prints the traceback; the handler then   *)
(* returns normally                                                        *)
Except(d) ==
    /\ pc[d] = "except"
    /\ log' = [log EXCEPT ![d] = Append(@, [level |-> "traceback", what |-> exc[d], arg |-> 0])]
    /\ exc' = [exc EXCEPT ![d] = "none"]
    /\ result' = [result EXCEPT ![d] = "returned"]
    /\ pc' = [pc EXCEPT ![d] = "done"]
    /\ UNCHANGED <<port_i, sent, chan, acks, swFlows, swGroups, cycle, seen, call, ret>>

(* The switch takes the next message off its connection *)
SwitchRecv(d) ==
    /\ chan[d] # <<>>
    /\ LET msg == Head(chan[d])
       IN  /\ chan' = [chan EXCEPT ![d] = Tail(@)]
           /\ swFlows' = [swFlows EXCEPT ![d] =
                             IF msg.kind = "OFPFlowMod" THEN ApplyFlowMod(@, msg) ELSE @]
           /\ swGroups' = [swGroups EXCEPT ![d] =
                              IF msg.kind = "OFPGroupMod" THEN ApplyGroupMod(@, msg) ELSE @]
           /\ acks' = [acks EXCEPT ![d] =
                          IF msg.kind = "OFPBarrierRequest" THEN @ + 1 ELSE @]
    /\ UNCHANGED <<pc, port_i, exc, result, log, sent, cycle, seen, call, ret>>

Handler(d) ==
    \/ Connect(d)
    \/ DelFlows(d)
    \/ DelFlowsReply(d)
    \/ DelGroups(d)
    \/ DelGroupsReply(d)
    \/ TableMiss(d)
    \/ VlanTagged(d)
    \/ VlanUntagged(d)
    \/ AddGroup(d)
    \/ Bridge1(d)
    \/ Bridge2(d)
    \/ Return(d)
    \/ Except(d)

----------------------------------------------------------------------------
(* One switch connecting, with any stale contents, up to MaxCycles times *)

Init ==
    /\ pc = [d \in DPIDS |-> "idle"]
    /\ port_i = [d \in DPIDS |-> 1]
    /\ exc = [d \in DPIDS |-> "none"]
    /\ result = [d \in DPIDS |-> "none"]
    /\ log = [d \in DPIDS |-> <<>>]
    /\ sent = [d \in DPIDS |-> <<>>]
    /\ chan = [d \in DPIDS |-> <<>>]
    /\ acks = [d \in DPIDS |-> 0]
    /\ cycle = [d \in DPIDS |-> 0]
    /\ seen = [d \in DPIDS |-> [outcome |-> "none", flows |-> {}, groups |-> {}]]
    /\ call = [fn |-> "none", port |-> 0, mid |-> 0, type |-> 0]
    /\ ret = Ok(Wide(0))
    /\ \E F \in SUBSET StaleFlows, G \in SUBSET StaleGroups :
         /\ swFlows = [d \in DPIDS |-> IF d = 1 THEN F ELSE {}]
         /\ swGroups = [d \in DPIDS |-> IF d = 1 THEN G ELSE {}]

Next == Handler(1) \/ SwitchRecv(1)

Spec == Init /\ [][Next]_vars

----------------------------------------------------------------------------
(* One switch as above, its stale contents those a switch can hold: every  *)
(* group a stale flow entry names is in the stale group table              *)

InitRI ==
    /\ Init
    /\ \A d \in DPIDS : \A f \in swFlows[d] :
          \E g \in swGroups[d] : f.instructions[1].actions[1].arg = g.group_id

SpecRI == InitRI /\ [][Next]_vars

----------------------------------------------------------------------------
(* One switch as above, scheduled: a handler invocation that can take its  *)
(* next statement takes it, and the switch takes the messages on its       *)
(* connection and answers barrier requests.  When a switch connects is up  *)
(* to the switch, and a call that can return is not bound to raise: no     *)
(* fairness on Connect nor on a call raising.                              *)

HandlerStep(d) == Handler(d) /\ cycle'[d] = cycle[d] /\ pc'[d] # "except"

SpecFair ==
    /\ Init
    /\ [][Next]_vars
    /\ WF_vars(HandlerStep(1))
    /\ WF_vars(SwitchRecv(1))

----------------------------------------------------------------------------
(* Two switches, each connecting once to an empty pipeline; the steps of   *)
(* the two handler invocations and of the two switches in any order        *)

InitTwo ==
    /\ Init
    /\ \A d \in DPIDS : swFlows[d] = {} /\ swGroups[d] = {}

ConnectOnce(d) == cycle[d] = 0 /\ Connect(d)

NextTwo ==
    \E d \in DPIDS :
        \/ ConnectOnce(d)
        \/ DelFlows(d)
        \/ DelFlowsReply(d)
        \/ DelGroups(d)
        \/ DelGroupsReply(d)
        \/ TableMiss(d)
        \/ VlanTagged(d)
        \/ VlanUntagged(d)
        \/ AddGroup(d)
        \/ Bridge1(d)
        \/ Bridge2(d)
        \/ Return(d)
        \/ Except(d)
        \/ SwitchRecv(d)

SpecTwo == InitTwo /\ [][NextTwo]_vars

----------------------------------------------------------------------------
(* The group id builders called on their own, with arguments inside, on    *)
(* and outside the bounds of each field                                    *)

PortSamples == {-65536, -1, 0, 1, 2, 255, 65535, 65536}
VlanSamples == {-1, 0, 1, 4095, 4096}
TypeSamples == {-1, 0, 1, 11, 12, 13}

HandlerIdle ==
    UNCHANGED <<pc, port_i, exc, result, log, sent, chan, acks, swFlows, swGroups, cycle, seen>>

Call_l2_if_group ==
    \E port \in PortSamples, vlan_id \in VlanSamples :
        /\ call' = [fn |-> "l2_if_group", port |-> port, mid |-> vlan_id, type |-> 0]
        /\ ret' = l2_if_group(port, vlan_id)
        /\ HandlerIdle

Call_l2_unfiltered_if_group ==
    \E port \in PortSamples :
        /\ call' = [fn |-> "l2_unfiltered_if_group", port |-> port, mid |-> 0, type |-> 11]
        /\ ret' = l2_unfiltered_if_group(port)
        /\ HandlerIdle

(* _ofdpa_group_id on the index line 174 builds from a port and a VLAN id *)
Call_ofdpa_group_id ==
    \E port \in PortSamples, mid \in VlanSamples, type \in TypeSamples :
        /\ call' = [fn |-> "ofdpa_group_id", port |-> port, mid |-> mid, type |-> type]
        /\ ret' = ofdpa_group_id(port_vlan(port, mid), type)
        /\ HandlerIdle

InitCodec ==
    /\ Init
    /\ swFlows = [d \in DPIDS |-> {}]
    /\ swGroups = [d \in DPIDS |-> {}]

NextCodec == Call_l2_if_group \/ Call_l2_unfiltered_if_group \/ Call_ofdpa_group_id

SpecCodec == InitCodec /\ [][NextCodec]_vars

----------------------------------------------------------------------------
(* Reading a trace of mutations *)

IsFlowAdd(m) == m.kind = "OFPFlowMod" /\ m.command = OFPFC_ADD
IsGroupAdd(m) == m.kind = "OFPGroupMod" /\ m.command = OFPFC_ADD
IsAdd(m) == IsFlowAdd(m) \/ IsGroupAdd(m)
IsDelete(m) ==
    \/ m.kind = "OFPFlowMod" /\ m.command = OFPFC_DELETE
    \/ m.kind = "OFPGroupMod" /\ m.command = OFPGC_DELETE

(* the group ids the actions of a flow entry (or flow mod) name *)
GroupRefs(m) ==
    UNION { IF m.instructions[k].type = "OFPIT_APPLY_ACTIONS"
            THEN {m.instructions[k].actions[a].arg :
                    a \in {b \in 1..Len(m.instructions[k].actions) :
                             m.instructions[k].actions[b].type = "GROUP"}}
            ELSE {}
          : k \in 1..Len(m.instructions) }

IsBridging(m) == IsFlowAdd(m) /\ GroupRefs(m) # {}
IsTableMiss(m) == IsFlowAdd(m) /\ m.match = {}
IsVlanEntry(m) == IsFlowAdd(m) /\ m.table_id = 10

ToInt(w) == w.hi * Limb + w.lo

Phase(m) ==
    IF IsDelete(m) THEN 1
    ELSE IF IsTableMiss(m) THEN 2
    ELSE IF IsGroupAdd(m) THEN 4
    ELSE IF IsBridging(m) THEN 5
    ELSE 3

----------------------------------------------------------------------------
(* C1: in the mutations of one cycle, every flow ADD whose action names a  *)
(* group id g comes after the ADD of group g, and both L2 interface groups *)
(* (ports 1 and 2, native VLAN) are sent before either bridging entry.     *)
C1_GroupsBeforeBridging ==
    \A d \in DPIDS : \A i \in 1..Len(sent[d]) :
        IsBridging(sent[d][i]) =>
            /\ \A g \in GroupRefs(sent[d][i]) :
                 \E j \in 1..(i - 1) : IsGroupAdd(sent[d][j]) /\ sent[d][j].group_id = g
            /\ \A id \in {65537, 65538} :
                 \E j \in 1..(i - 1) : IsGroupAdd(sent[d][j]) /\ ToInt(sent[d][j].group_id) = id

C1_Witness ==
    /\ Len(sent[1]) = 10
    /\ IsBridging(sent[1][10])

(* C2: once a cycle has issued an ADD, both wipe commands were issued      *)
(* first, the switch has carried them out and the handler has consumed     *)
(* their confirmations: no delete-all and no barrier is still in flight.   *)
C2_WipeConfirmedBeforeAdd ==
    \A d \in DPIDS :
        (\E i \in 1..Len(sent[d]) : IsAdd(sent[d][i])) =>
            /\ Len(sent[d]) >= 3
            /\ sent[d][1] = del_flows(d)
            /\ sent[d][2] = del_groups(d)
            /\ \A i \in 3..Len(sent[d]) : IsAdd(sent[d][i])
            /\ \A k \in 1..Len(chan[d]) :
                 /\ chan[d][k].kind # "OFPBarrierRequest"
                 /\ ~IsDelete(chan[d][k])
            /\ acks[d] = 0

C2_Witness ==
    /\ Len(sent[1]) = 3
    /\ IsAdd(sent[1][3])
    /\ chan[1] # <<>>
    /\ seen[1].flows # {}
    /\ swFlows[1] = {}

(* C3 as claimed: every group ADD of a cycle is issued before every flow   *)
(* ADD other than the table-miss entry, the VLAN_TABLE entries included.   *)
C3_GroupsBeforeAllFlows ==
    \A d \in DPIDS : \A i, j \in 1..Len(sent[d]) :
        (IsGroupAdd(sent[d][i]) /\ IsFlowAdd(sent[d][j]) /\ ~IsTableMiss(sent[d][j]))
            => i < j

(* C3 amended: the mutations of a cycle come in the order wipe, table-miss *)
(* entry, VLAN_TABLE entries, groups, bridging entries; every group ADD    *)
(* follows the table-miss entry and all four VLAN_TABLE entries and        *)
(* precedes both bridging entries.                                         *)
C3_PhasesInCodeOrder ==
    \A d \in DPIDS :
        /\ \A i, j \in 1..Len(sent[d]) :
             i < j => Phase(sent[d][i]) <= Phase(sent[d][j])
        /\ \A i \in 1..Len(sent[d]) :
             IsGroupAdd(sent[d][i]) =>
                 /\ Cardinality({j \in 1..(i - 1) : IsVlanEntry(sent[d][j])}) = 4
                 /\ Cardinality({j \in 1..(i - 1) : IsTableMiss(sent[d][j])}) = 1

C3_Witness ==
    /\ Len(sent[1]) = 11
    /\ IsVlanEntry(sent[1][4])
    /\ IsGroupAdd(sent[1][8])
    /\ IsBridging(sent[1][11])

----------------------------------------------------------------------------
(* What a failure-free cycle installs *)

TargetFlows(d) ==
    {FlowEntry(TableMissMsg(d))}
    \cup {FlowEntry(VlanTaggedMsg(d, ports[k])) : k \in 1..Len(ports)}
    \cup {FlowEntry(VlanUntaggedMsg(d, ports[k])) : k \in 1..Len(ports)}
    \cup {FlowEntry(BridgeMsg(d, 1, Bridge1Group.val)), FlowEntry(BridgeMsg(d, 2, Bridge2Group.val))}

TargetGroups(d) ==
    {GroupEntry(GroupMsg(d, ports[k], l2_if_group(ports[k], n_vlan).val)) : k \in 1..Len(ports)}

FailedAt(d, step) ==
    \/ exc[d] = step
    \/ \E i \in 1..Len(log[d]) : log[d][i].level = "traceback" /\ log[d][i].what = step

(* the cycle ended without a failure and the switch has taken all of it *)
CompleteOk(d) == pc[d] = "done" /\ Outcome(d) = "ok"

----------------------------------------------------------------------------
(* What a switch that was empty holds after taking the first n of msgs *)

RECURSIVE FlowsAfter(_, _)
FlowsAfter(msgs, n) ==
    IF n = 0 THEN {}
    ELSE IF msgs[n].kind = "OFPFlowMod" THEN ApplyFlowMod(FlowsAfter(msgs, n - 1), msgs[n])
    ELSE FlowsAfter(msgs, n - 1)

RECURSIVE GroupsAfter(_, _)
GroupsAfter(msgs, n) ==
    IF n = 0 THEN {}
    ELSE IF msgs[n].kind = "OFPGroupMod" THEN ApplyGroupMod(GroupsAfter(msgs, n - 1), msgs[n])
    ELSE GroupsAfter(msgs, n - 1)

(* what the messages of the cycle of d, taken alone, leave on an empty switch *)
SingleCycleFlows(d) == FlowsAfter(sent[d], Len(sent[d]))
SingleCycleGroups(d) == GroupsAfter(sent[d], Len(sent[d]))

(* C4: when a complete failure-free cycle follows a complete failure-free  *)
(* cycle on the same switch, whatever the switch held before the first,    *)
(* the switch holds the same flow entries and the same groups after the    *)
(* second as it held after the first, and they are those a single cycle    *)
(* leaves on an empty switch: nothing of the state before a cycle passes   *)
(* its wipe.                                                               *)
C4_Idempotent ==
    \A d \in DPIDS :
        (CompleteOk(d) /\ seen[d].outcome = "ok") =>
            /\ swFlows[d] = seen[d].flows
            /\ swGroups[d] = seen[d].groups
            /\ swFlows[d] = SingleCycleFlows(d)
            /\ swGroups[d] = SingleCycleGroups(d)
            /\ seen[d].flows = SingleCycleFlows(d)
            /\ seen[d].groups = SingleCycleGroups(d)

C4_Witness ==
    /\ CompleteOk(1)
    /\ cycle[1] = 2
    /\ seen[1].outcome = "ok"
    /\ seen[1].groups # {}
    /\ seen[1].flows # {}

(* C5: after a call of a cycle has failed, the cycle issues no further     *)
(* mutation; when the call that failed is the ADD of the table-miss entry, *)
(* the cycle has issued no group ADD and no bridging ADD.                  *)
C5_AbortOnFailure ==
    /\ [][\A d \in DPIDS :
            (Failed(d) /\ cycle'[d] = cycle[d]) => sent'[d] = sent[d]]_vars
    /\ [](\A d \in DPIDS :
            FailedAt(d, "table_miss") =>
                \A i \in 1..Len(sent[d]) :
                    ~IsGroupAdd(sent[d][i]) /\ ~IsBridging(sent[d][i]))

C5_Witness ==
    /\ pc[1] = "done"
    /\ FailedAt(1, "table_miss")
    /\ Len(sent[1]) = 2
    /\ chan[1] = <<>>

(* C6: a cycle in which a call failed ends for its invoker in an error,    *)
(* not in the normal return a successful cycle ends in.                    *)
C6_ErrorSurfaced ==
    \A d \in DPIDS :
        (pc[d] = "done" /\ Failed(d)) => result[d] = "raised"

(* C7: from any switch contents, stale entries and the remains of aborted  *)
(* cycles included, a failure-free cycle the switch has fully taken leaves *)
(* exactly the target flow entries and the target groups.                  *)
C7_SelfHealing ==
    \A d \in DPIDS :
        CompleteOk(d) =>
            /\ swFlows[d] = TargetFlows(d)
            /\ swGroups[d] = TargetGroups(d)

C7_Witness ==
    /\ CompleteOk(1)
    /\ seen[1].outcome = "failed"
    /\ seen[1].flows # {}
    /\ seen[1].flows # TargetFlows(1)
    /\ seen[1].groups # TargetGroups(1)

----------------------------------------------------------------------------
(* The positions of sent[d] that hold an ADD of a given shape *)

FlowAdds(d) == {i \in 1..Len(sent[d]) : IsFlowAdd(sent[d][i])}
GroupAdds(d) == {i \in 1..Len(sent[d]) : IsGroupAdd(sent[d][i])}

ApplyOnly(actions) == <<[type |-> "OFPIT_APPLY_ACTIONS", actions |-> actions]>>
ApplyThenGoto(actions, t) ==
    <<[type |-> "OFPIT_APPLY_ACTIONS", actions |-> actions],
      [type |-> "OFPIT_GOTO_TABLE", table_id |-> t]>>

EndedOk(d) == pc[d] = "done" /\ ~Failed(d)

(* C8: a failure-free cycle issues exactly 7 flow ADDs: 1 table-miss       *)
(* entry; 4 entries of table 10, for each port one matching the port and   *)
(* the native VLAN tagged and one matching the port untagged; 2 entries of *)
(* table 60 at priority 1000, in_port 1 to the group of port 2 and in_port *)
(* 2 to the group of port 1.                                               *)
C8_SevenFlowAdds ==
    \A d \in DPIDS :
        EndedOk(d) =>
            /\ Cardinality(FlowAdds(d)) = 7
            /\ Cardinality({i \in FlowAdds(d) : sent[d][i].match = {}}) = 1
            /\ Cardinality({i \in FlowAdds(d) : sent[d][i].table_id = 10}) = 4
            /\ \A p \in {1, 2} :
                 /\ Cardinality({i \in FlowAdds(d) :
                        /\ sent[d][i].table_id = 10
                        /\ sent[d][i].match = {<<"in_port", p>>, <<"vlan_vid", 4097>>}
                        /\ sent[d][i].instructions = ApplyThenGoto(<<>>, 20)}) = 1
                 /\ Cardinality({i \in FlowAdds(d) :
                        /\ sent[d][i].table_id = 10
                        /\ sent[d][i].match = {<<"in_port", p>>, <<"vlan_vid", 0>>}
                        /\ sent[d][i].instructions =
                             ApplyThenGoto(<<[type |-> "SET_FIELD", field |-> "vlan_vid",
                                             arg |-> 1]>>, 20)}) = 1
            /\ Cardinality({i \in FlowAdds(d) :
                   sent[d][i].table_id = 60 /\ sent[d][i].priority = 1000}) = 2
            /\ Cardinality({i \in FlowAdds(d) : sent[d][i].match # {}
                   /\ sent[d][i].table_id # 10
                   /\ ~(sent[d][i].table_id = 60 /\ sent[d][i].priority = 1000)}) = 0
            /\ \A p \in {1, 2} :
                 Cardinality({i \in FlowAdds(d) :
                    /\ sent[d][i].table_id = 60
                    /\ sent[d][i].priority = 1000
                    /\ <<"in_port", p>> \in sent[d][i].match
                    /\ sent[d][i].instructions =
                         ApplyOnly(<<[type |-> "GROUP", field |-> "",
                                      arg |-> [hi |-> 1, lo |-> 3 - p]]>>)}) = 1

C8_Witness ==
    /\ EndedOk(1)
    /\ Cardinality(FlowAdds(1)) = 7
    /\ chan[1] = <<>>

(* C9 as claimed: the table-miss entry goes to table 0, at priority 0,     *)
(* with an empty match, an empty action list and no goto.                  *)
C9_TableMissAtTable0 ==
    \A d \in DPIDS : \A i \in FlowAdds(d) :
        sent[d][i].match = {} =>
            /\ sent[d][i].table_id = 0
            /\ sent[d][i].priority = 0
            /\ sent[d][i].instructions = ApplyOnly(<<>>)

(* C9 amended: the table-miss entry goes to table 60 (ACL_TABLE), at       *)
(* priority 0, with an empty match, an empty action list and no goto; it   *)
(* is the first ADD of the cycle and the switch holds it from then on.     *)
C9_TableMissAtAclTable ==
    \A d \in DPIDS :
        /\ \A i \in FlowAdds(d) :
             (sent[d][i].match = {} \/ sent[d][i].priority = 0 \/ i = 3) =>
                /\ i = 3
                /\ sent[d][i].table_id = 60
                /\ sent[d][i].priority = 0
                /\ sent[d][i].match = {}
                /\ sent[d][i].instructions = ApplyOnly(<<>>)
        /\ CompleteOk(d) =>
             \E f \in swFlows[d] :
                /\ f.table_id = 60 /\ f.priority = 0 /\ f.match = {}
                /\ f.instructions = ApplyOnly(<<>>)

C9_Witness ==
    /\ CompleteOk(1)
    /\ \E f \in swFlows[1] : f.match = {} /\ f.priority = 0
    /\ \E f \in seen[1].flows : f.table_id = 60

(* C10: a failure-free cycle issues exactly 2 group ADDs, both of type     *)
(* INDIRECT, with the ids 0x00010001 and 0x00010002; the group of port p   *)
(* has one bucket, whose actions are pop VLAN then output(p).              *)
C10_TwoIndirectGroups ==
    \A d \in DPIDS :
        EndedOk(d) =>
            /\ Cardinality(GroupAdds(d)) = 2
            /\ \A i \in GroupAdds(d) : sent[d][i].type = 2
            /\ {ToInt(sent[d][i].group_id) : i \in GroupAdds(d)} = {65537, 65538}
            /\ \A i \in GroupAdds(d) : \A p \in {1, 2} :
                 ToInt(sent[d][i].group_id) = 65536 + p =>
                    sent[d][i].buckets =
                        <<[actions |-> <<[type |-> "POP_VLAN", field |-> "", arg |-> 0],
                                         [type |-> "OUTPUT", field |-> "", arg |-> p]>>]>>

C10_Witness ==
    /\ EndedOk(1)
    /\ Cardinality(GroupAdds(1)) = 2
    /\ Cardinality(swGroups[1]) = 2

----------------------------------------------------------------------------
(* C11: for each port p the cycle issues exactly two entries of table 10,  *)
(* both at priority 3 and both with goto table 20: one matching in_port p  *)
(* and the native VLAN tagged (vlan_vid 0x1001) with no action, one        *)
(* matching in_port p untagged (vlan_vid 0) whose only action sets the     *)
(* VLAN id to 1.  No entry of table 10 has any other shape.                *)
VlanAdds(d, p) ==
    {i \in FlowAdds(d) : sent[d][i].table_id = 10 /\ <<"in_port", p>> \in sent[d][i].match}

C11_VlanEntriesPerPort ==
    \A d \in DPIDS :
        /\ \A i \in FlowAdds(d) :
             sent[d][i].table_id = 10 =>
                /\ sent[d][i].priority = 3
                /\ Len(sent[d][i].instructions) = 2
                /\ sent[d][i].instructions[2] = [type |-> "OFPIT_GOTO_TABLE", table_id |-> 20]
                /\ \E p \in {1, 2} :
                     \/ /\ sent[d][i].match = {<<"in_port", p>>, <<"vlan_vid", 4097>>}
                        /\ sent[d][i].instructions[1].actions = <<>>
                     \/ /\ sent[d][i].match = {<<"in_port", p>>, <<"vlan_vid", 0>>}
                        /\ sent[d][i].instructions[1].actions =
                             <<[type |-> "SET_FIELD", field |-> "vlan_vid", arg |-> 1]>>
        /\ EndedOk(d) =>
             \A p \in {1, 2} :
                /\ Cardinality(VlanAdds(d, p)) = 2
                /\ \E i, j \in VlanAdds(d, p) :
                     /\ <<"vlan_vid", 4097>> \in sent[d][i].match
                     /\ <<"vlan_vid", 0>> \in sent[d][j].match

C11_Witness ==
    /\ EndedOk(1)
    /\ Cardinality(VlanAdds(1, 1)) = 2
    /\ Cardinality(VlanAdds(1, 2)) = 2
    /\ Cardinality({f \in swFlows[1] : f.table_id = 10}) = 4

----------------------------------------------------------------------------
(* Group id fields: bits 0-15 port, bits 16-27 VLAN id, bits 28-31 type    *)

ValidPort(p) == p \in 0..65535
ValidMid(m) == m \in 0..4095
ValidType(t) == t \in 0..12
ValidCall == call.fn # "none" /\ ValidPort(call.port) /\ ValidMid(call.mid) /\ ValidType(call.type)

DecodeType(v) == (v.hi \div Pow2(12)) % Pow2(4)
DecodeMid(v) == v.hi % Pow2(12)
DecodePort(v) == v.lo % Pow2(16)

(* the reference encoding port | (mid << 16) | (type << 28) of fields in range *)
Encode(type, mid, port) == [hi |-> type * Pow2(12) + mid, lo |-> port]

Returned == call.fn # "none" /\ ret.exc = "none"
Raised == call.fn # "none" /\ ret.exc = "AssertionError"

(* C12: for every type in 0..12, VLAN id in 0..0xFFF and port in 0..0xFFFF *)
(* the id built from them is returned and its bits 28-31, 16-27 and 0-15   *)
(* are exactly the type, the VLAN id and the port it was built from        *)
C12_RoundTrip ==
    ValidCall =>
        /\ Returned
        /\ ret.val.hi \in 0..65535
        /\ DecodeType(ret.val) = call.type
        /\ DecodeMid(ret.val) = call.mid
        /\ DecodePort(ret.val) = call.port

C12_Witness ==
    /\ call = [fn |-> "ofdpa_group_id", port |-> 65535, mid |-> 4095, type |-> 12]
    /\ ret = Ok([hi |-> 53247, lo |-> 65535])

(* C13: for every valid port and VLAN id l2_if_group(port, vlan) is the    *)
(* reference encoding of (0, vlan, port), and l2_unfiltered_if_group(port) *)
(* is the reference encoding of (11, 0, port)                              *)
C13_ConstructorsAgree ==
    /\ (call.fn = "l2_if_group" /\ ValidPort(call.port) /\ ValidMid(call.mid)) =>
           /\ ret = Ok(Encode(0, call.mid, call.port))
           /\ ret = ofdpa_group_id(port_vlan(call.port, call.mid), 0)
    /\ (call.fn = "l2_unfiltered_if_group" /\ ValidPort(call.port)) =>
           /\ ret = Ok(Encode(11, 0, call.port))
           /\ ret = ofdpa_group_id(port_vlan(call.port, 0), 11)

C13_Witness ==
    /\ call.fn = "l2_unfiltered_if_group"
    /\ call.port = 65535
    /\ ret = Ok([hi |-> 45056, lo |-> 65535])

(* C14: building an id with type 13, with VLAN id 0x1000, or with port     *)
(* 0x10000, the other fields 0, raises and returns no id                   *)
C14_RangeEnforced ==
    /\ (call.fn = "ofdpa_group_id" /\ call.type = 13 /\ call.mid = 0 /\ call.port = 0)
           => Raised
    /\ (call.fn \in {"l2_if_group", "ofdpa_group_id"} /\ call.type = 0
            /\ call.mid = 4096 /\ call.port = 0)
           => Raised
    /\ (call.fn \in {"l2_if_group", "l2_unfiltered_if_group"}
            /\ call.mid = 0 /\ call.port = 65536)
           => Raised

C14_Witness ==
    /\ call = [fn |-> "l2_if_group", port |-> 0, mid |-> 4096, type |-> 0]
    /\ Raised

(* C15: for every integer input, negative ones included, a group id        *)
(* constructor either raises or returns a value in 0..2^32-1, and it       *)
(* raises whenever a field is outside its range                            *)
C15_FailOrInRange ==
    call.fn \in {"l2_if_group", "l2_unfiltered_if_group"} =>
        /\ Returned => ret.val.hi \in 0..65535
        /\ ~(ValidPort(call.port) /\ ValidMid(call.mid)) => Raised

----------------------------------------------------------------------------
(* The cycle of switch d run alone: what it sends, in order                *)

AloneSeq(d) ==
    <<del_flows(d), del_groups(d), TableMissMsg(d),
      VlanTaggedMsg(d, 1), VlanUntaggedMsg(d, 1), VlanTaggedMsg(d, 2), VlanUntaggedMsg(d, 2),
      GroupMsg(d, 1, l2_if_group(1, n_vlan).val), GroupMsg(d, 2, l2_if_group(2, n_vlan).val),
      BridgeMsg(d, 1, Bridge1Group.val), BridgeMsg(d, 2, Bridge2Group.val)>>

(* how many of the mutations sent for d its switch has taken *)
Taken(d) ==
    Len(sent[d]) - Cardinality({i \in 1..Len(chan[d]) : chan[d][i].kind # "OFPBarrierRequest"})

OwnState(d) ==
    <<pc[d], port_i[d], exc[d], result[d], log[d], sent[d], chan[d], acks[d],
      swFlows[d], swGroups[d], cycle[d], seen[d]>>

(* C16: with the cycles of two switches interleaved in any order, what is  *)
(* sent for a switch is a prefix of what its cycle sends alone, every      *)
(* message on a switch's connection is addressed to that switch, the       *)
(* switch holds what the mutations it has taken of its own cycle make of   *)
(* an empty pipeline, at the end the target state, and a step of one cycle *)
(* or switch leaves everything of the other unchanged                      *)
C16_Independent ==
    /\ [](\A d \in DPIDS :
            /\ \A i \in 1..Len(chan[d]) : chan[d][i].datapath = d
            /\ \A i \in 1..Len(sent[d]) : sent[d][i].datapath = d
            /\ Len(sent[d]) <= Len(AloneSeq(d))
            /\ sent[d] = SubSeq(AloneSeq(d), 1, Len(sent[d]))
            /\ Taken(d) \in 0..Len(sent[d])
            /\ swFlows[d] = FlowsAfter(sent[d], Taken(d))
            /\ swGroups[d] = GroupsAfter(sent[d], Taken(d))
            /\ CompleteOk(d) =>
                   swFlows[d] = TargetFlows(d) /\ swGroups[d] = TargetGroups(d))
    /\ [][\E d \in DPIDS : \A e \in DPIDS \ {d} : OwnState(e)' = OwnState(e)]_vars

C16_Witness ==
    /\ CompleteOk(1)
    /\ swFlows[1] = TargetFlows(1)
    /\ pc[2] = "vlan_untagged"
    /\ chan[2] # <<>>
    /\ Taken(2) = 2

----------------------------------------------------------------------------
(* Forwarding by the installed state: a frame is a set of field values, an *)
(* entry matches it when every field the entry names has the frame's value *)

Matches(f, frame) == f.match \subseteq frame

(* the entries of table t that win the lookup for the frame *)
Winners(d, t, frame) ==
    {f \in swFlows[d] :
        /\ f.table_id = t
        /\ Matches(f, frame)
        /\ \A g \in swFlows[d] :
              (g.table_id = t /\ Matches(g, frame)) => g.priority <= f.priority}

BucketOutPorts(bucket) ==
    {bucket.actions[a].arg :
        a \in {b \in 1..Len(bucket.actions) : bucket.actions[b].type = "OUTPUT"}}

GroupOutPorts(g) == UNION {BucketOutPorts(g.buckets[b]) : b \in 1..Len(g.buckets)}

(* the ports a flow entry outputs on through the groups it names *)
OutPorts(d, f) ==
    UNION {GroupOutPorts(g) : g \in {h \in swGroups[d] : h.group_id \in GroupRefs(f)}}

NativeFrame(p) == {<<"in_port", p>>, <<"vlan_vid", 4097>>}

Egress(d, p) == UNION {OutPorts(d, f) : f \in Winners(d, 60, NativeFrame(p))}

BridgingEntries(d) == {f \in swFlows[d] : GroupRefs(f) # {}}

(* C17: after a failure-free cycle every bridging entry has one ingress    *)
(* port p in 1..2 and, through its group and the group's bucket, outputs   *)
(* on the other port only; a native-VLAN frame entering port 1 leaves on   *)
(* port 2 exactly and one entering port 2 on port 1 exactly                *)
C17_CrossConnect ==
    \A d \in DPIDS :
        CompleteOk(d) =>
            /\ Cardinality(BridgingEntries(d)) = 2
            /\ \A f \in BridgingEntries(d) :
                   \E p \in {1, 2} :
                       /\ <<"in_port", p>> \in f.match
                       /\ OutPorts(d, f) = {3 - p}
            /\ Egress(d, 1) = {2}
            /\ Egress(d, 2) = {1}
            /\ \A p \in {1, 2} : Cardinality(Winners(d, 60, NativeFrame(p))) = 1

C17_Witness ==
    /\ CompleteOk(1)
    /\ Egress(1, 1) = {2}
    /\ Egress(1, 2) = {1}
    /\ seen[1].flows = StaleFlows

(* two matches that some packet satisfies together: no field on which      *)
(* they name different values                                              *)
Overlap(m1, m2) == \A x \in m1, y \in m2 : x[1] = y[1] => x[2] = y[2]

(* C18: in every state of a switch reached through provisioning cycles no  *)
(* two distinct flow entries of one table have equal priority and matches  *)
(* that a packet can satisfy together                                      *)
C18_NoPriorityTies ==
    \A d \in DPIDS :
        \A f, g \in swFlows[d] :
            (f # g /\ f.table_id = g.table_id /\ f.priority = g.priority)
                => ~Overlap(f.match, g.match)

C18_Witness ==
    /\ cycle[1] = 2
    /\ Cardinality(swFlows[1]) = 7
    /\ Cardinality({f \in swFlows[1] : f.table_id = 10 /\ f.priority = 3}) = 4
    /\ Cardinality({f \in swFlows[1] : f.table_id = 60 /\ f.priority = 1000}) = 2

GroupIds(d) == {g.group_id : g \in swGroups[d]}

(* C19: in every state of the switch, across cycles and cycles aborted at  *)
(* any step, every group id named by an action of a flow entry the switch  *)
(* holds is the id of a group in its group table                           *)
C19_ReferentialIntegrity ==
    \A d \in DPIDS : \A f \in swFlows[d] : GroupRefs(f) \subseteq GroupIds(d)

C19_Witness ==
    /\ cycle[1] = 2
    /\ seen[1].outcome = "failed"
    /\ pc[1] = "del_groups_wait"
    /\ Len(chan[1]) = 2
    /\ swFlows[1] = {}
    /\ swGroups[1] = TargetGroups(1)

Running(d) == pc[d] \notin {"idle", "done"}

AddKey(m) ==
    IF m.kind = "OFPFlowMod" THEN <<"flow", m.table_id, m.priority, m.match>>
    ELSE <<"group", m.group_id>>

(* C20: every cycle that has started reaches its end; one that ends with   *)
(* no failure has issued the two wipe commands and then 9 ADDs, 7 of flow  *)
(* entries and 2 of groups, no entry twice, and the switch comes to hold   *)
(* the target state; a cycle in which a call failed ends at that step,     *)
(* with nothing sent after it                                              *)
C20_Terminates ==
    /\ \A d \in DPIDS : Running(d) ~> (pc[d] = "done")
    /\ [](\A d \in DPIDS :
            EndedOk(d) =>
                /\ Len(sent[d]) = 11
                /\ sent[d][1] = del_flows(d)
                /\ sent[d][2] = del_groups(d)
                /\ \A i \in 3..11 : IsAdd(sent[d][i])
                /\ Cardinality(FlowAdds(d)) = 7
                /\ Cardinality(GroupAdds(d)) = 2
                /\ \A i, j \in 3..11 : i # j => AddKey(sent[d][i]) # AddKey(sent[d][j]))
    /\ \A d \in DPIDS :
          EndedOk(d) ~> (swFlows[d] = TargetFlows(d) /\ swGroups[d] = TargetGroups(d))
    /\ [][\A d \in DPIDS :
            (pc[d] = "except" /\ pc'[d] # "except") =>
                pc'[d] = "done" /\ sent'[d] = sent[d] /\ chan'[d] = chan[d]]_vars

C20_Witness ==
    /\ EndedOk(1)
    /\ cycle[1] = 2
    /\ Len(sent[1]) = 11
    /\ chan[1] = <<>>
    /\ swFlows[1] = TargetFlows(1)
    /\ seen[1].outcome = "failed"

====
